---- MODULE Spec2Model ----
(***************************************************************************)
(* Model of src/src/services/authService.ts: the AuthService HTTP client   *)
(* (login, validateToken, logout, getProfile, checkServerHealth with the   *)
(* shared handleApiResponse error resolution) and the ProtectedRoute       *)
(* route guard.                                                            *)
(*                                                                         *)
(* The service methods are async functions on one event loop: the code     *)
(* between two awaits runs without interruption, and the continuations of  *)
(* different calls interleave at the awaits.  Each action below is one     *)
(* such uninterrupted piece.  What the server answers (status, body) and   *)
(* how the fetch primitive fails are inputs, chosen with \E.               *)
(*                                                                         *)
(* Error messages are sequences of characters, so that                     *)
(* String.prototype.includes is computed and not looked up.                *)
(***************************************************************************)
EXTENDS Integers, Sequences, FiniteSets

\* Calls of the service that are outstanding at once: started, and the result
\* not yet consumed by the caller.
MaxCalls == 2

(***************************************************************************)
(* Message texts                                                           *)
(***************************************************************************)

\* 'Erro de comunicação com o servidor'   (authService.ts:36 and :58)
MsgGeneric ==
  <<
    "E", "r", "r", "o", " ", "d", "e", " ", "c", "o", "m", "u", "n", "i", "c",
    "a", "ç", "ã", "o", " ", "c", "o", "m", " ", "o", " ", "s", "e", "r", "v",
    "i", "d", "o", "r"
  >>

\* 'Dados inválidos enviados para o servidor'   (authService.ts:44)
Msg400 ==
  <<
    "D", "a", "d", "o", "s", " ", "i", "n", "v", "á", "l", "i", "d", "o", "s",
    " ", "e", "n", "v", "i", "a", "d", "o", "s", " ", "p", "a", "r", "a", " ",
    "o", " ", "s", "e", "r", "v", "i", "d", "o", "r"
  >>

\* 'Credenciais inválidas ou sessão expirada'   (authService.ts:46)
Msg401 ==
  <<
    "C", "r", "e", "d", "e", "n", "c", "i", "a", "i", "s", " ", "i", "n", "v",
    "á", "l", "i", "d", "a", "s", " ", "o", "u", " ", "s", "e", "s", "s", "ã",
    "o", " ", "e", "x", "p", "i", "r", "a", "d", "a"
  >>

\* 'Acesso negado'   (authService.ts:48)
Msg403 ==
  <<
    "A", "c", "e", "s", "s", "o", " ", "n", "e", "g", "a", "d", "o"
  >>

\* 'Serviço não encontrado. Verifique se o servidor está rodando'   (authService.ts:50)
Msg404 ==
  <<
    "S", "e", "r", "v", "i", "ç", "o", " ", "n", "ã", "o", " ", "e", "n", "c",
    "o", "n", "t", "r", "a", "d", "o", ".", " ", "V", "e", "r", "i", "f", "i",
    "q", "u", "e", " ", "s", "e", " ", "o", " ", "s", "e", "r", "v", "i", "d",
    "o", "r", " ", "e", "s", "t", "á", " ", "r", "o", "d", "a", "n", "d", "o"
  >>

\* 'Erro interno do servidor'   (authService.ts:52)
Msg500 ==
  <<
    "E", "r", "r", "o", " ", "i", "n", "t", "e", "r", "n", "o", " ", "d", "o",
    " ", "s", "e", "r", "v", "i", "d", "o", "r"
  >>

\* 'Servidor indisponível'   (authService.ts:54)
Msg502 ==
  <<
    "S", "e", "r", "v", "i", "d", "o", "r", " ", "i", "n", "d", "i", "s", "p",
    "o", "n", "í", "v", "e", "l"
  >>

\* 'Serviço temporariamente indisponível'   (authService.ts:56)
Msg503 ==
  <<
    "S", "e", "r", "v", "i", "ç", "o", " ", "t", "e", "m", "p", "o", "r", "a",
    "r", "i", "a", "m", "e", "n", "t", "e", " ", "i", "n", "d", "i", "s", "p",
    "o", "n", "í", "v", "e", "l"
  >>

\* 'Não foi possível conectar ao servidor. Verifique sua conexão e se o servidor está rodando.'   (authService.ts:89)
MsgConnectivity ==
  <<
    "N", "ã", "o", " ", "f", "o", "i", " ", "p", "o", "s", "s", "í", "v", "e",
    "l", " ", "c", "o", "n", "e", "c", "t", "a", "r", " ", "a", "o", " ", "s",
    "e", "r", "v", "i", "d", "o", "r", ".", " ", "V", "e", "r", "i", "f", "i",
    "q", "u", "e", " ", "s", "u", "a", " ", "c", "o", "n", "e", "x", "ã", "o",
    " ", "e", " ", "s", "e", " ", "o", " ", "s", "e", "r", "v", "i", "d", "o",
    "r", " ", "e", "s", "t", "á", " ", "r", "o", "d", "a", "n", "d", "o", "."
  >>

\* 'Failed to fetch'   (message of the TypeError a failed fetch rejects with (Chromium))
MsgFailedToFetch ==
  <<
    "F", "a", "i", "l", "e", "d", " ", "t", "o", " ", "f", "e", "t", "c", "h"
  >>

\* 'Load failed'   (message of the TypeError a failed fetch rejects with (WebKit))
MsgLoadFailed ==
  <<
    "L", "o", "a", "d", " ", "f", "a", "i", "l", "e", "d"
  >>

\* 'Cannot read properties of null (reading 'message')'   (message of the TypeError of reading .message of null (authService.ts:36))
MsgNullRead ==
  <<
    "C", "a", "n", "n", "o", "t", " ", "r", "e", "a", "d", " ", "p", "r", "o",
    "p", "e", "r", "t", "i", "e", "s", " ", "o", "f", " ", "n", "u", "l", "l",
    " ", "(", "r", "e", "a", "d", "i", "n", "g", " ", "'", "m", "e", "s", "s",
    "a", "g", "e", "'", ")"
  >>

\* 'Unexpected end of JSON input'   (message of the SyntaxError response.json() rejects with)
MsgJsonSyntax ==
  <<
    "U", "n", "e", "x", "p", "e", "c", "t", "e", "d", " ", "e", "n", "d", " ",
    "o", "f", " ", "J", "S", "O", "N", " ", "i", "n", "p", "u", "t"
  >>

\* 'Conta bloqueada'   (a message the server sends in its JSON error body)
MsgServer ==
  <<
    "C", "o", "n", "t", "a", " ", "b", "l", "o", "q", "u", "e", "a", "d", "a"
  >>

\* 'fetch'   (authService.ts:88, the argument of includes)
NeedleFetch ==
  <<
    "f", "e", "t", "c", "h"
  >>

(***************************************************************************)
(* Values                                                                  *)
(***************************************************************************)

\* String.prototype.includes: needle occurs in s as a contiguous run.
Includes(s, needle) ==
  \E i \in 0..(Len(s) - Len(needle)) : SubSeq(s, i + 1, i + Len(needle)) = needle

\* A JavaScript error object: its class and its message.
MkError(t, m) == [type |-> t, message |-> m]

NoError == MkError("none", <<>>)

\* What a fetch that gets no response rejects with: a TypeError whose message
\* depends on the browser.
NetErrors ==
  {MkError("TypeError", MsgFailedToFetch), MkError("TypeError", MsgLoadFailed)}

\* What response.json() rejects with when the body is not JSON.
JsonSyntaxError == MkError("SyntaxError", MsgJsonSyntax)

\* HTTP statuses the server answers with where the method reads the body.
Statuses == {200, 400, 401, 403, 404, 418, 500, 502, 503}

\* HTTP statuses the server answers with where the method reads no body
\* (/auth/logout, /health): 204 No Content as well.
AnyStatuses == Statuses \cup {204}

\* Response.ok
ResponseOk(status) == status >= 200 /\ status <= 299

\* A response body as response.json() sees it: not JSON ("invalid"), the JSON
\* value null, or a JSON object with its message (<<>> when absent or empty)
\* and its token ("none" when absent).
Body(j, m, t) == [json |-> j, message |-> m, token |-> t]

NoBody == Body("none", <<>>, "none")

Unparsable == Body("invalid", <<>>, "none")

JsonNull == Body("null", <<>>, "none")

\* Bodies of a failing response, the ApiError shape {message, status?}.
ErrBodies ==
  {Unparsable, JsonNull, Body("object", <<>>, "none"),
   Body("object", MsgServer, "none")}

\* Tokens the server issues.
ServerTokens == {"tokA", "tokB"}

\* Bodies of a successful /auth/login response, the LoginResponse shape.
LoginBodies == {Unparsable} \cup {Body("object", <<>>, t) : t \in ServerTokens}

\* Bodies of a successful /auth/validate or /profiles/{id} response.
DataBodies == {Unparsable, Body("object", <<>>, "none")}

\* localStorage.getItem('admin_token') of a key that is not stored: null.
Absent == "<null>"

\* What localStorage holds under 'admin_token' when the page loads.
StoredTokens == {Absent, "", "tokA"}

\* JavaScript truthiness of a getItem result: if (token).
Truthy(tok) == tok # Absent /\ tok # ""

\* window.location.href: the page the admin is on, and the redirect target.
AppUrl == "/Admin/"

LoginUrl == "/Admin/login"

\* The methods that pass their response through handleApiResponse.
HttpOps == {"login", "validateToken", "getProfile"}

\* One call of such a method: where it is, the response status (0: no
\* response), the body read, the error raised inside the method (cause), the
\* error thrown to the caller (err) and the value returned (ret).
IdleCall ==
  [pc |-> "idle", status |-> 0, body |-> NoBody, cause |-> NoError,
   err |-> NoError, ret |-> "none"]

IdleLogout == [pc |-> "idle", tok |-> Absent, outcome |-> "none"]

IdleHealth == [pc |-> "idle", status |-> 0, ret |-> FALSE]

NoAccess == [op |-> "none", kind |-> "none"]

(***************************************************************************)
(* State                                                                   *)
(***************************************************************************)

VARIABLES
  token,            \* localStorage 'admin_token'
  href,             \* window.location.href
  acc,              \* the access to the token storage made by the last step
  call,             \* the calls of login, validateToken and getProfile
  logout,           \* the call of logout
  health,           \* the call of checkServerHealth
  session,          \* useAuth(): isAuthenticated, loading, serverError
  pathname,         \* useLocation().pathname
  addNotification,  \* useNotification().addNotification, a function identity
  mounted,          \* ProtectedRoute is mounted
  view,             \* what ProtectedRoute rendered last
  emitted           \* the last commit's effect called addNotification

serviceVars == <<token, href, acc, call, logout, health>>

guardVars == <<session, pathname, addNotification, mounted, view, emitted>>

vars == <<serviceVars, guardVars>>

(***************************************************************************)
(* AuthService                                                             *)
(***************************************************************************)

\* getErrorMessageByStatus with the case of 502 left out.
getErrorMessageByStatus_No502(status) ==
  CASE status = 400 -> Msg400
    [] status = 401 -> Msg401
    [] status = 403 -> Msg403
    [] status = 404 -> Msg404
    [] status = 500 -> Msg500
    [] status = 503 -> Msg503
    [] OTHER -> MsgGeneric

\* getErrorMessageByStatus
getErrorMessageByStatus(status) ==
  CASE status = 400 -> Msg400
    [] status = 401 -> Msg401
    [] status = 403 -> Msg403
    [] status = 404 -> Msg404
    [] status = 500 -> Msg500
    [] status = 502 -> Msg502
    [] status = 503 -> Msg503
    [] OTHER -> MsgGeneric

\* handleApiResponse, the error a failing response is turned into: the parsed
\* body, or the synthesized error when json() rejects; then
\* new Error(error.message || <generic>), where reading .message of null is
\* itself a TypeError.
ResolvedError(status, body) ==
  LET message == IF body.json = "invalid"
                   THEN getErrorMessageByStatus(status)
                   ELSE body.message
  IN  IF body.json = "null"
        THEN MkError("TypeError", MsgNullRead)
        ELSE MkError("Error", IF message = <<>> THEN MsgGeneric ELSE message)

\* The session cleared on 401 alone.
InvalidatesSession_Only401(status) == status = 401

\* handleApiResponse, the statuses that clear the session and redirect.
InvalidatesSession(status) == status = 401 \/ status = 403

\* clearAuthData, called within the method op.
clearAuthData(op) ==
  /\ token' = Absent
  /\ acc' = [op |-> op, kind |-> "removeItem"]

\* No access to the token storage.
KeepToken ==
  /\ token' = token
  /\ acc' = NoAccess

\* The number of calls outstanding.
Outstanding ==
  Cardinality({op \in HttpOps : call[op].pc # "idle"})
    + (IF logout.pc # "idle" THEN 1 ELSE 0)
    + (IF health.pc # "idle" THEN 1 ELSE 0)

\* login, validateToken: up to the await of fetch.
Call(op) ==
  /\ call[op].pc = "idle"
  /\ Outstanding < MaxCalls
  /\ call' = [call EXCEPT ![op] = [IdleCall EXCEPT !.pc = "fetch"]]
  /\ KeepToken
  /\ UNCHANGED <<href, logout, health, guardVars>>

\* getProfile: reads the token for the bearer header, up to the await of fetch.
getProfileCall ==
  /\ call["getProfile"].pc = "idle"
  /\ Outstanding < MaxCalls
  /\ acc' = [op |-> "getProfile", kind |-> "getItem"]
  /\ call' = [call EXCEPT !["getProfile"] = [IdleCall EXCEPT !.pc = "fetch"]]
  /\ UNCHANGED <<token, href, logout, health, guardVars>>

\* login's catch block, entered with error e when the call stands as c: the
\* connectivity message for a TypeError that mentions fetch, e itself otherwise.
loginCatch(c, e) ==
  /\ call' = [call EXCEPT !["login"] =
                [c EXCEPT !.pc = "threw", !.cause = e,
                          !.err = IF e.type = "TypeError"
                                     /\ Includes(e.message, NeedleFetch)
                                    THEN MkError("Error", MsgConnectivity)
                                    ELSE e]]
  /\ KeepToken
  /\ UNCHANGED href

\* validateToken's catch block without clearAuthData.
validateTokenCatch_NoClear(c, e) ==
  /\ call' = [call EXCEPT !["validateToken"] =
                [c EXCEPT !.pc = "threw", !.cause = e, !.err = e]]
  /\ KeepToken
  /\ UNCHANGED href

\* validateToken's catch block: clears the token and rethrows e.
validateTokenCatch(c, e) ==
  /\ call' = [call EXCEPT !["validateToken"] =
                [c EXCEPT !.pc = "threw", !.cause = e, !.err = e]]
  /\ clearAuthData("validateToken")
  /\ UNCHANGED href

\* getProfile's catch block: rethrows e.
getProfileCatch(c, e) ==
  /\ call' = [call EXCEPT !["getProfile"] =
                [c EXCEPT !.pc = "threw", !.cause = e, !.err = e]]
  /\ KeepToken
  /\ UNCHANGED href

\* Error e reaches the catch block of method op.
Catch(op, c, e) ==
  CASE op = "login" -> loginCatch(c, e)
    [] op = "validateToken" -> validateTokenCatch(c, e)
    [] op = "getProfile" -> getProfileCatch(c, e)

\* login storing the token it returns.
Return_StoresToken(op, c, b) ==
  /\ call' = [call EXCEPT ![op] =
                [c EXCEPT !.pc = "returned",
                          !.ret = IF op = "login" THEN b.token ELSE "record"]]
  /\ IF op = "login"
       THEN token' = b.token /\ acc' = [op |-> op, kind |-> "setItem"]
       ELSE KeepToken
  /\ UNCHANGED href

\* return await response.json(), the body parsed: login returns the
\* LoginResponse (its token is kept here), the others return the record.
Return(op, c, b) ==
  /\ call' = [call EXCEPT ![op] =
                [c EXCEPT !.pc = "returned",
                          !.ret = IF op = "login" THEN b.token ELSE "record"]]
  /\ KeepToken
  /\ UNCHANGED href

\* The fetch of op rejects: no response, the catch block runs.
FetchRejected(op, e) ==
  /\ call[op].pc = "fetch"
  /\ Catch(op, call[op], e)
  /\ UNCHANGED <<logout, health, guardVars>>

\* The fetch of op resolves with a response of status s, and the method calls
\* handleApiResponse: for a failing response handleApiResponse awaits
\* response.json(); for an ok response it returns the response, and the
\* method stays suspended at await this.handleApiResponse(response).
FetchResolved(op, s) ==
  /\ call[op].pc = "fetch"
  /\ call' = [call EXCEPT ![op].status = s,
                          ![op].pc = IF ResponseOk(s) THEN "handled" ELSE "errBody"]
  /\ KeepToken
  /\ UNCHANGED <<href, logout, health, guardVars>>

\* The method resumes from await this.handleApiResponse(response) with the
\* ok response: it calls response.json() and awaits it.
Resumed(op) ==
  /\ call[op].pc = "handled"
  /\ call' = [call EXCEPT ![op].pc = "okBody"]
  /\ KeepToken
  /\ UNCHANGED <<href, logout, health, guardVars>>

\* handleApiResponse after response.json() of a failing response settled with
\* body b: on 401 and 403 clear the token and redirect, then throw.  The
\* promise of handleApiResponse is now rejected; the method awaiting it has
\* not run yet.
handleApiResponse(op, b) ==
  /\ call[op].pc = "errBody"
  /\ call' = [call EXCEPT ![op].pc = "rejected", ![op].body = b,
                          ![op].cause = ResolvedError(call[op].status, b)]
  /\ IF InvalidatesSession(call[op].status)
       THEN clearAuthData(op) /\ href' = LoginUrl
       ELSE KeepToken /\ UNCHANGED href
  /\ UNCHANGED <<logout, health, guardVars>>

\* The method resumes from await this.handleApiResponse(response) with the
\* rejection: its catch block runs.
Rejected(op) ==
  /\ call[op].pc = "rejected"
  /\ Catch(op, call[op], call[op].cause)
  /\ UNCHANGED <<logout, health, guardVars>>

\* response.json() of an ok response settled with body b: a body that is not
\* JSON rejects into the catch block, a parsed one is returned.
BodyRead(op, b) ==
  /\ call[op].pc = "okBody"
  /\ b \in (IF op = "login" THEN LoginBodies ELSE DataBodies)
  /\ LET c == [call[op] EXCEPT !.body = b]
     IN  IF b.json = "invalid"
           THEN Catch(op, c, JsonSyntaxError)
           ELSE Return(op, c, b)
  /\ UNCHANGED <<logout, health, guardVars>>

\* The caller has the result of the call of op.
Collect(op) ==
  /\ call[op].pc \in {"returned", "threw"}
  /\ call' = [call EXCEPT ![op] = IdleCall]
  /\ KeepToken
  /\ UNCHANGED <<href, logout, health, guardVars>>

\* logout calling clearAuthData before its request.
logoutCall_ClearsFirst ==
  /\ logout.pc = "idle"
  /\ Outstanding < MaxCalls
  /\ logout' = IF Truthy(token)
                 THEN [pc |-> "fetch", tok |-> token, outcome |-> "none"]
                 ELSE [pc |-> "returned", tok |-> token, outcome |-> "skipped"]
  /\ clearAuthData("logout")
  /\ UNCHANGED <<href, call, health, guardVars>>

\* logout up to its first await: reads the token; with a token it awaits the
\* fetch of /auth/logout, without one it goes straight to clearAuthData.
logoutCall ==
  /\ logout.pc = "idle"
  /\ Outstanding < MaxCalls
  /\ IF Truthy(token)
       THEN /\ logout' = [pc |-> "fetch", tok |-> token, outcome |-> "none"]
            /\ acc' = [op |-> "logout", kind |-> "getItem"]
            /\ UNCHANGED token
       ELSE /\ logout' = [pc |-> "returned", tok |-> token, outcome |-> "skipped"]
            /\ clearAuthData("logout")
  /\ UNCHANGED <<href, call, health, guardVars>>

\* The fetch of /auth/logout resolves with status s: the response is dropped,
\* then clearAuthData.
logoutFetchResolved(s) ==
  /\ logout.pc = "fetch"
  /\ logout' = [logout EXCEPT !.pc = "returned",
                              !.outcome = IF ResponseOk(s) THEN "ok" ELSE "error"]
  /\ clearAuthData("logout")
  /\ UNCHANGED <<href, call, health, guardVars>>

\* logout without the try/catch around its request.
logoutFetchRejected_NoCatch(e) ==
  /\ logout.pc = "fetch"
  /\ logout' = [logout EXCEPT !.pc = "threw", !.outcome = "rejected"]
  /\ KeepToken
  /\ UNCHANGED <<href, call, health, guardVars>>

\* The fetch of /auth/logout rejects with e: caught and logged, then
\* clearAuthData.
logoutFetchRejected(e) ==
  /\ logout.pc = "fetch"
  /\ logout' = [logout EXCEPT !.pc = "returned", !.outcome = "rejected"]
  /\ clearAuthData("logout")
  /\ UNCHANGED <<href, call, health, guardVars>>

\* The caller of logout resumes.
logoutCollect ==
  /\ logout.pc \in {"returned", "threw"}
  /\ logout' = IdleLogout
  /\ KeepToken
  /\ UNCHANGED <<href, call, health, guardVars>>

\* checkServerHealth up to the await of fetch.
checkServerHealthCall ==
  /\ health.pc = "idle"
  /\ Outstanding < MaxCalls
  /\ health' = [IdleHealth EXCEPT !.pc = "fetch"]
  /\ KeepToken
  /\ UNCHANGED <<href, call, logout, guardVars>>

\* checkServerHealth returning true for any response.
checkServerHealthResolved_AnyResponse(s) ==
  /\ health.pc = "fetch"
  /\ health' = [pc |-> "returned", status |-> s, ret |-> TRUE]
  /\ KeepToken
  /\ UNCHANGED <<href, call, logout, guardVars>>

\* The fetch of /health resolves with status s: return response.ok.
checkServerHealthResolved(s) ==
  /\ health.pc = "fetch"
  /\ health' = [pc |-> "returned", status |-> s, ret |-> ResponseOk(s)]
  /\ KeepToken
  /\ UNCHANGED <<href, call, logout, guardVars>>

\* The fetch of /health rejects with e: caught and logged, return false.
checkServerHealthRejected(e) ==
  /\ health.pc = "fetch"
  /\ health' = [pc |-> "returned", status |-> 0, ret |-> FALSE]
  /\ KeepToken
  /\ UNCHANGED <<href, call, logout, guardVars>>

\* The caller of checkServerHealth has the result.
checkServerHealthCollect ==
  /\ health.pc \in {"returned", "threw"}
  /\ health' = IdleHealth
  /\ KeepToken
  /\ UNCHANGED <<href, call, logout, guardVars>>

(***************************************************************************)
(* ProtectedRoute                                                          *)
(***************************************************************************)

\* What useAuth() can supply.
Sessions == [isAuthenticated : BOOLEAN, loading : BOOLEAN, serverError : BOOLEAN]

\* What useLocation().pathname can be.
Paths == {"/login", "/dashboard", "/profiles"}

\* Identities of the addNotification function useNotification() supplies.
Notifiers == {"addNotification#1", "addNotification#2"}

\* The dependency array of the effect.
Deps(s, p, n) == <<s.isAuthenticated, s.loading, s.serverError, p, n>>

\* The condition of the effect without the test of isAuthenticated.
SessionExpired_AnySession(s, p) == ~s.loading /\ ~s.serverError /\ p # "/login"

\* The condition of the effect.
SessionExpired(s, p) ==
  ~s.loading /\ ~s.isAuthenticated /\ ~s.serverError /\ p # "/login"

\* What the component returns.
Render(s) ==
  IF s.loading THEN "LoadingSpinner"
  ELSE IF s.serverError THEN "Navigate /login"
  ELSE IF ~s.isAuthenticated THEN "Navigate /login"
  ELSE "children"

\* One render with inputs s, p, n and its commit; the effect runs when
\* runEffect, and calls addNotification when its condition holds.
Commit(s, p, n, runEffect) ==
  /\ session' = s
  /\ pathname' = p
  /\ addNotification' = n
  /\ view' = Render(s)
  /\ emitted' = (runEffect /\ SessionExpired(s, p))

\* The component mounts: the effect runs.
Mount(s, p, n) ==
  /\ ~mounted
  /\ mounted' = TRUE
  /\ Commit(s, p, n, TRUE)
  /\ UNCHANGED serviceVars

\* The component renders again, with the same inputs or others: the effect
\* runs when a dependency differs from the last commit's.
Rerender(s, p, n) ==
  /\ mounted
  /\ UNCHANGED mounted
  /\ Commit(s, p, n, Deps(s, p, n) # Deps(session, pathname, addNotification))
  /\ UNCHANGED serviceVars

\* The component unmounts.
Unmount ==
  /\ mounted
  /\ mounted' = FALSE
  /\ view' = "none"
  /\ emitted' = FALSE
  /\ UNCHANGED <<session, pathname, addNotification>>
  /\ UNCHANGED serviceVars

(***************************************************************************)
(* Specifications                                                          *)
(***************************************************************************)

Init ==
  /\ token \in StoredTokens
  /\ href = AppUrl
  /\ acc = NoAccess
  /\ call = [op \in HttpOps |-> IdleCall]
  /\ logout = IdleLogout
  /\ health = IdleHealth
  /\ session = [isAuthenticated |-> FALSE, loading |-> TRUE, serverError |-> FALSE]
  /\ pathname = "/dashboard"
  /\ addNotification = "addNotification#1"
  /\ mounted = FALSE
  /\ view = "none"
  /\ emitted = FALSE

\* The service: its calls, interleaved at their awaits.
Next ==
  \/ \E op \in {"login", "validateToken"} : Call(op)
  \/ getProfileCall
  \/ \E op \in HttpOps, e \in NetErrors : FetchRejected(op, e)
  \/ \E op \in HttpOps, s \in Statuses : FetchResolved(op, s)
  \/ \E op \in HttpOps : Resumed(op)
  \/ \E op \in HttpOps, b \in ErrBodies : handleApiResponse(op, b)
  \/ \E op \in HttpOps : Rejected(op)
  \/ \E op \in HttpOps, b \in LoginBodies \cup DataBodies : BodyRead(op, b)
  \/ \E op \in HttpOps : Collect(op)
  \/ logoutCall
  \/ \E s \in AnyStatuses : logoutFetchResolved(s)
  \/ \E e \in NetErrors : logoutFetchRejected(e)
  \/ logoutCollect
  \/ checkServerHealthCall
  \/ \E s \in AnyStatuses : checkServerHealthResolved(s)
  \/ \E e \in NetErrors : checkServerHealthRejected(e)
  \/ checkServerHealthCollect

Spec == Init /\ [][Next]_vars

\* The route guard: mounts, renders on any change of its inputs, unmounts.
GuardNext ==
  \/ \E s \in Sessions, p \in Paths, n \in Notifiers : Mount(s, p, n)
  \/ \E s \in Sessions, p \in Paths, n \in Notifiers : Rerender(s, p, n)
  \/ Unmount

GuardSpec == Init /\ [][GuardNext]_vars

(***************************************************************************)
(* Properties                                                              *)
(***************************************************************************)

\* The error a call of op has thrown: by handleApiResponse while the method
\* has not resumed, by the method once it has.
Thrown(op) == IF call[op].pc = "rejected" THEN call[op].cause ELSE call[op].err

\* C1: in login, validateToken and getProfile, once handleApiResponse has
\* thrown for a response of status 401 or 403, whether the body parsed or
\* not, the token is removed and the redirect to the login route is set: this
\* holds from the throw on, before the method and its caller see the error.
C1_ClearedAndRedirectedBeforeThrow ==
  \A op \in HttpOps :
    (call[op].pc \in {"rejected", "threw"} /\ call[op].status \in {401, 403})
      => (token = Absent /\ href = LoginUrl)

\* C1 witness: handleApiResponse has just thrown for a 403 whose body parsed,
\* having removed the token.
C1_Witness ==
  \E op \in HttpOps :
    /\ call[op].pc = "rejected"
    /\ call[op].status = 403
    /\ call[op].body = Body("object", MsgServer, "none")
    /\ acc = [op |-> op, kind |-> "removeItem"]
    /\ href = LoginUrl

\* C2: logout ends with the token removed and returns, never throws, whether
\* a token was stored or not and however the /auth/logout request ended.
C2_LogoutAlwaysClears ==
  (logout.pc \in {"returned", "threw"})
    => (logout.pc = "returned" /\ token = Absent)

\* C2 witness: logout has returned after its request failed at network
\* level, with a token stored when it started.
C2_Witness ==
  /\ logout.pc = "returned"
  /\ logout.outcome = "rejected"
  /\ Truthy(logout.tok)
  /\ token = Absent

\* C3: whenever validateToken throws (HTTP error of any status, network
\* failure, or a success body that does not parse), the token is removed and
\* the error thrown is the one that was raised.
C3_ValidateClearsOnFailure ==
  (call["validateToken"].pc = "threw")
    => /\ token = Absent
       /\ call["validateToken"].err = call["validateToken"].cause
       /\ call["validateToken"].err # NoError

\* C3 witness: validateToken has just thrown for a 500, removing the token in
\* its catch block.
C3_Witness ==
  /\ call["validateToken"].pc = "threw"
  /\ call["validateToken"].status = 500
  /\ acc = [op |-> "validateToken", kind |-> "removeItem"]

\* C4: checkServerHealth never throws, returns false when the request fails
\* at network level (status 0) or the status is not 2xx, true otherwise, and
\* no step of it touches the token or redirects.
C4_HealthNeverThrows ==
  [][(health' # health)
       => /\ token' = token
          /\ href' = href
          /\ acc' = NoAccess
          /\ health'.pc # "threw"
          /\ (health'.pc = "returned"
                => health'.ret = (health'.status >= 200 /\ health'.status <= 299))
    ]_vars

\* C4 witness: checkServerHealth has returned false for a 401 with a token
\* stored and no redirect.
C4_Witness ==
  /\ health.pc = "returned"
  /\ health.status = 401
  /\ health.ret = FALSE
  /\ token = "tokA"
  /\ href = AppUrl

\* C5 as claimed: when the fetch of login rejects (no response), the error
\* thrown carries the connectivity message and not the text of the rejection.
C5_NetworkFailureGivesConnectivityMessage ==
  (call["login"].pc = "threw" /\ call["login"].status = 0)
    => /\ call["login"].err.message = MsgConnectivity
       /\ call["login"].err.message # call["login"].cause.message

\* The route guard is in the unauthenticated state.
Unauthenticated == mounted /\ SessionExpired(session, pathname)

\* C6 as claimed: with loading false and isAuthenticated true, whatever
\* serverError is, the guard renders the children and emits nothing.
C6_AuthenticatedRendersChildren ==
  (mounted /\ ~session.loading /\ session.isAuthenticated)
    => (view = "children" /\ ~emitted)

\* C6 as amended: with loading false, serverError false and isAuthenticated
\* true, on every path, the guard renders the children, does not redirect and
\* emits nothing; with serverError true it redirects to the login route.
C6_AuthenticatedNoErrorRendersChildren ==
  (mounted /\ ~session.loading /\ session.isAuthenticated)
    => /\ ~emitted
       /\ view = IF session.serverError THEN "Navigate /login" ELSE "children"

\* C6 witness: the guard renders the children of an authenticated session.
C6_Witness ==
  /\ mounted
  /\ ~session.loading
  /\ session.isAuthenticated
  /\ ~session.serverError
  /\ pathname = "/dashboard"
  /\ view = "children"

\* C7 as claimed: the warning is emitted on each entry into the
\* unauthenticated state and by no commit that stays in it.
C7_NotifiedOncePerEntry ==
  [][/\ (~Unauthenticated /\ Unauthenticated') => emitted'
     /\ (Unauthenticated /\ Unauthenticated') => ~emitted'
    ]_vars

\* C8 as claimed: once login has returned {admin, token}, the stored token is
\* the returned one.
C8_LoginStoresToken ==
  (call["login"].pc = "returned") => (token = call["login"].ret)

\* C8 as amended: a successful login returns the token of the server's
\* response and leaves the token storage as it was.
C8_LoginReturnsTokenUnstored ==
  [][(call["login"].pc # "returned" /\ call'["login"].pc = "returned")
       => /\ call'["login"].ret \in ServerTokens
          /\ call'["login"].ret = call'["login"].body.token
          /\ token' = token
          /\ acc' = NoAccess
    ]_vars

\* C8 witness: login has returned a token other than the stored one.
C8_Witness ==
  /\ call["login"].pc = "returned"
  /\ call["login"].ret = "tokB"
  /\ token = "tokA"

\* C9: for a failing response whose body is not JSON, the message thrown is
\* the table entry of the status for 400, 401, 403, 404, 500, 502 and 503,
\* and the generic message for any other status.
C9_UnparsableBodyGivesTableMessage ==
  \A op \in HttpOps :
    (/\ call[op].pc \in {"rejected", "threw"}
     /\ call[op].body = Unparsable
     /\ ~(call[op].status >= 200 /\ call[op].status <= 299))
      => Thrown(op).message =
           (CASE call[op].status = 400 -> Msg400
              [] call[op].status = 401 -> Msg401
              [] call[op].status = 403 -> Msg403
              [] call[op].status = 404 -> Msg404
              [] call[op].status = 500 -> Msg500
              [] call[op].status = 502 -> Msg502
              [] call[op].status = 503 -> Msg503
              [] OTHER -> MsgGeneric)

\* C9 witness: a call has thrown the table message of a 502 whose body is
\* not JSON, and another stands at a 418 whose body is not JSON.
C9_Witness ==
  \E op, other \in HttpOps :
    /\ call[op].pc = "threw"
    /\ call[op].body = Unparsable
    /\ call[op].status = 502
    /\ call[op].err.message = Msg502
    /\ call[other].pc = "rejected"
    /\ call[other].body = Unparsable
    /\ call[other].status = 418

\* logout removes the token only once its request has settled: the step that
\* starts the request leaves the token, the step that ends it removes it.
DeletionAfterRequest ==
  /\ (logout.pc = "idle" /\ logout'.pc = "fetch")
       => (token' = token /\ acc' = [op |-> "logout", kind |-> "getItem"])
  /\ (logout.pc = "fetch" /\ logout'.pc # "fetch")
       => (token' = Absent /\ acc' = [op |-> "logout", kind |-> "removeItem"])

\* C10 as claimed: logout removes the token after its request has settled,
\* and while the request is pending no other method reads or writes the
\* token storage.
C10_LogoutNotInterleaved ==
  [][/\ DeletionAfterRequest
     /\ (logout.pc = "fetch") => (acc'.op \in {"none", "logout"})
    ]_vars

\* C10 as amended: logout removes the token after its request has settled.
C10_LogoutDeletesAfterRequest == [][DeletionAfterRequest]_vars

\* C10 witness: logout has just removed the token it had read, after its
\* request was answered with an error status.
C10_Witness ==
  /\ logout.pc = "returned"
  /\ logout.outcome = "error"
  /\ Truthy(logout.tok)
  /\ acc = [op |-> "logout", kind |-> "removeItem"]

====
